---- MODULE Spec2Model ----
(***************************************************************************)
(* Model of skills/youtube-subtitle-summarizer/clean_subtitles.py:         *)
(* clean_vtt_subtitle (the VTT cleaning routine) and main (the CLI).       *)
(*                                                                         *)
(* A Python str is modelled as a sequence of one-character strings.        *)
(* Every statement of clean_vtt_subtitle's loop body is one action, the    *)
(* program counter pc names the source line that runs next.                *)
(***************************************************************************)
EXTENDS Integers, Sequences, FiniteSets, TLC

VARIABLES
    pc,            \* source position of the process
    argc,          \* len(sys.argv)
    file_exists,   \* subtitle_file.exists()
    file_readable, \* whether open()/read() of the file succeeds
    file_content,  \* what f.read() returns when it succeeds
    vtt_content,   \* argument of clean_vtt_subtitle
    lines,         \* vtt_content.split('\n')
    idx,           \* position of the for loop in lines (next line to take)
    line,          \* loop variable
    clean_line,    \* local of the loop body
    prev_line,     \* clean_line as it was before the last substitution ran
    text_lines,    \* list of emitted lines
    seen_lines,    \* set of emitted lines
    result,        \* return value of clean_vtt_subtitle
    cleaned_text,  \* local of main
    stdout,        \* characters written to sys.stdout
    stderr,        \* records written to sys.stderr, one per print call
    exit_code,     \* process exit status, -1 while running
    calls,         \* number of calls of clean_vtt_subtitle so far
    first_out      \* result of the first call, kept when it is fed back in

vars == <<pc, argc, file_exists, file_readable, file_content, vtt_content,
          lines, idx, line, clean_line, prev_line, text_lines, seen_lines,
          result, cleaned_text, stdout, stderr, exit_code, calls, first_out>>

-----------------------------------------------------------------------------
(* Bounds of the model.                                                    *)

\* longest input built from fragments (in fragments)
MaxFrags == 3
\* longest input built from whole sample lines (in lines)
MaxLines == 3

-----------------------------------------------------------------------------
(* Characters and string literals of the source.                           *)

NL == "\n"
WEBVTT == <<"W", "E", "B", "V", "T", "T">>
KindColon == <<"K", "i", "n", "d", ":">>
LanguageColon == <<"L", "a", "n", "g", "u", "a", "g", "e", ":">>
Arrow == <<"-", "-", ">">>

\* str.isspace() on the characters of the model's alphabet
Whitespace == {" ", "\t", "\n", "\r"}

\* the characters of the alphabet that the regex class \w matches
WordChars == {"a", "b", "c", "d", "e", "g", "i", "n", "u",
              "B", "E", "K", "L", "T", "V", "W"}

-----------------------------------------------------------------------------
(* Python string operations, computed as CPython computes them.            *)

\* s.startswith(p)
StartsWith(s, p) == Len(s) >= Len(p) /\ SubSeq(s, 1, Len(p)) = p

\* p in s
Contains(s, p) ==
    \E i \in 1..(Len(s) - Len(p) + 1) : SubSeq(s, i, i + Len(p) - 1) = p

\* index of the first occurrence of character c in s, 0 when there is none
IndexOf(s, c) ==
    IF \E i \in 1..Len(s) : s[i] = c
    THEN CHOOSE i \in 1..Len(s) : s[i] = c /\ \A j \in 1..(i - 1) : s[j] # c
    ELSE 0

\* s.split('\n'): the pieces between newlines; '' gives ['']
RECURSIVE split_nl(_)
split_nl(s) ==
    LET i == IndexOf(s, NL) IN
    IF i = 0 THEN <<s>>
    ELSE <<SubSeq(s, 1, i - 1)>> \o split_nl(SubSeq(s, i + 1, Len(s)))

\* sep.join(parts)
RECURSIVE join(_, _)
join(sep, parts) ==
    IF parts = <<>> THEN <<>>
    ELSE IF Len(parts) = 1 THEN parts[1]
    ELSE parts[1] \o sep \o join(sep, Tail(parts))

\* s.split(): the maximal runs of non-whitespace characters
RECURSIVE split_ws(_)
split_ws(s) ==
    IF s = <<>> THEN <<>>
    ELSE IF Head(s) \in Whitespace THEN split_ws(Tail(s))
    ELSE LET ends == {i \in 1..Len(s) : s[i] \in Whitespace}
             n == IF ends = {} THEN Len(s)
                  ELSE (CHOOSE i \in ends : \A j \in ends : i <= j) - 1
         IN <<SubSeq(s, 1, n)>> \o split_ws(SubSeq(s, n + 1, Len(s)))

\* s.strip()
RECURSIVE lstrip(_)
lstrip(s) ==
    IF s # <<>> /\ Head(s) \in Whitespace THEN lstrip(Tail(s)) ELSE s

RECURSIVE rstrip(_)
rstrip(s) ==
    IF s # <<>> /\ s[Len(s)] \in Whitespace
    THEN rstrip(SubSeq(s, 1, Len(s) - 1)) ELSE s

strip(s) == rstrip(lstrip(s))

\* re.sub(r'<[^>]+>', '', s): leftmost non-overlapping matches.  A match at
\* a '<' runs to the first '>' after it and needs one character in between.
RECURSIVE sub_any_tag(_)
sub_any_tag(s) ==
    IF s = <<>> THEN <<>>
    ELSE LET close == IndexOf(s, ">") IN
         IF Head(s) = "<" /\ close >= 3
         THEN sub_any_tag(SubSeq(s, close + 1, Len(s)))
         ELSE <<Head(s)>> \o sub_any_tag(Tail(s))

\* number of leading \w characters of s
RECURSIVE word_run(_)
word_run(s) ==
    IF s # <<>> /\ Head(s) \in WordChars THEN 1 + word_run(Tail(s)) ELSE 0

\* length of the match of r'</?\w+>' at the start of s, 0 when none
word_tag_match(s) ==
    IF s = <<>> \/ Head(s) # "<" THEN 0
    ELSE LET k == IF Len(s) >= 2 /\ s[2] = "/" THEN 2 ELSE 1
             n == word_run(SubSeq(s, k + 1, Len(s)))
         IN IF n >= 1 /\ Len(s) >= k + n + 1 /\ s[k + n + 1] = ">"
            THEN k + n + 1 ELSE 0

\* re.sub(r'</?\w+>', '', s)
RECURSIVE sub_word_tag(_)
sub_word_tag(s) ==
    IF s = <<>> THEN <<>>
    ELSE LET m == word_tag_match(s) IN
         IF m > 0 THEN sub_word_tag(SubSeq(s, m + 1, Len(s)))
         ELSE <<Head(s)>> \o sub_word_tag(Tail(s))

-----------------------------------------------------------------------------
(* The tests and assignments of clean_vtt_subtitle's loop body.            *)

\* line 28 without the test for 'Language:'
IsHeaderNoLanguage(l) == StartsWith(l, WEBVTT) \/ StartsWith(l, KindColon)

\* line 28: line.startswith('WEBVTT') or ... 'Kind:' or ... 'Language:'
IsHeader(l) ==
    StartsWith(l, WEBVTT) \/ StartsWith(l, KindColon) \/ StartsWith(l, LanguageColon)

\* line 32 as line.startswith('-->')
IsTimingAtStart(l) == StartsWith(l, Arrow)

\* line 32: '-->' in line
IsTiming(l) == Contains(l, Arrow)

\* line 36: not line.strip()
IsBlank(l) == strip(l) = <<>>

\* line 40 with the pattern r'<\w+>': closing tags and tags holding other
\* characters survive
RECURSIVE sub_open_word_tag(_)
sub_open_word_tag(s) ==
    IF s = <<>> THEN <<>>
    ELSE LET n == word_run(Tail(s)) IN
         IF Head(s) = "<" /\ n >= 1 /\ Len(s) >= n + 2 /\ s[n + 2] = ">"
         THEN sub_open_word_tag(SubSeq(s, n + 3, Len(s)))
         ELSE <<Head(s)>> \o sub_open_word_tag(Tail(s))

\* line 40 with the pattern r'<[^>/]+>': a tag holding '/' survives
RECURSIVE sub_tag_no_slash(_)
sub_tag_no_slash(s) ==
    IF s = <<>> THEN <<>>
    ELSE LET close == IndexOf(s, ">") IN
         IF Head(s) = "<" /\ close >= 3 /\ ~Contains(SubSeq(s, 1, close), <<"/">>)
         THEN sub_tag_no_slash(SubSeq(s, close + 1, Len(s)))
         ELSE <<Head(s)>> \o sub_tag_no_slash(Tail(s))

strip_tags_word(s) == sub_open_word_tag(s)
strip_tags_no_slash(s) == sub_tag_no_slash(s)

\* line 40: re.sub(r'<[^>]+>', '', line)
strip_tags(s) == sub_any_tag(s)

\* line 43: re.sub(r'</?\w+>', '', clean_line)
strip_word_tags(s) == sub_word_tag(s)

\* line 46 as re.sub(r'\s+', ' ', clean_line): runs collapsed, ends not trimmed
RECURSIVE collapse_no_trim(_)
collapse_no_trim(s) ==
    IF s = <<>> THEN <<>>
    ELSE IF Head(s) \in Whitespace THEN <<" ">> \o collapse_no_trim(lstrip(s))
    ELSE <<Head(s)>> \o collapse_no_trim(Tail(s))

\* line 46: ' '.join(clean_line.split())
collapse_spaces(s) == join(<<" ">>, split_ws(s))

-----------------------------------------------------------------------------
(* The inputs the model draws the file content from.                       *)

\* pieces the fragment-built inputs are concatenated from
Fragments ==
    { WEBVTT, KindColon, LanguageColon,
      <<"<">>, <<">">>, <<"-">>, <<"/">>, <<" ">>, <<"\t">>, <<NL>>,
      <<"a">>, <<"b">>, <<"<", "c", ">">> }

\* every concatenation of at most n fragments
RECURSIVE FragStrings(_)
FragStrings(n) ==
    IF n = 0 THEN {<<>>}
    ELSE LET S == FragStrings(n - 1) IN
         S \cup {s \o f : s \in S, f \in Fragments}

\* whole lines of a subtitle file: text, tagged text, text to be collapsed,
\* a header, a timing cue, a blank line, and lines whose markup hides a
\* header or an arrow
SampleLines ==
    { <<"a">>, <<"b">>,
      <<"<", "c", ">", "a", "<", "/", "c", ">">>,
      <<" ", "a", " ", "\t", "b">>,
      WEBVTT,
      <<"a", " ">> \o Arrow \o <<" ", "b">>,
      <<>>,
      <<"<", "c", ">">>,
      <<"<", "c", ">">> \o WEBVTT,
      <<"-", "<", "c", ">", "-", ">">> }

\* every file of 1..n sample lines, joined by newlines
RECURSIVE LineDocs(_)
LineDocs(n) ==
    IF n = 0 THEN {}
    ELSE LET D == LineDocs(n - 1) IN
         SampleLines \cup D \cup {d \o <<NL>> \o l : d \in D, l \in SampleLines}

Inputs == FragStrings(MaxFrags) \cup LineDocs(MaxLines)

-----------------------------------------------------------------------------
(* Standard error: one record per print(..., file=sys.stderr).             *)

Msg(t) == [text |-> t, value |-> -1]
Stat(t, n) == [text |-> t, value |-> n]

-----------------------------------------------------------------------------
(* Initial states.                                                         *)

Locals ==
    /\ vtt_content = <<>>
    /\ lines = <<>>
    /\ idx = 0
    /\ line = <<>>
    /\ clean_line = <<>>
    /\ prev_line = <<>>
    /\ text_lines = <<>>
    /\ seen_lines = {}
    /\ result = <<>>
    /\ cleaned_text = <<>>
    /\ stdout = <<>>
    /\ stderr = <<>>
    /\ exit_code = -1
    /\ calls = 0
    /\ first_out = <<>>

\* the process starts in main; a file that is absent or unreadable has no
\* content to return
Init ==
    /\ pc = "main_58"
    /\ \/ argc = 1 /\ file_exists = FALSE /\ file_readable = FALSE
          /\ file_content = <<>>
       \/ argc = 2 /\ file_exists = FALSE /\ file_readable = FALSE
          /\ file_content = <<>>
       \/ argc = 2 /\ file_exists = TRUE /\ file_readable = FALSE
          /\ file_content = <<>>
       \/ argc = 2 /\ file_exists = TRUE /\ file_readable = TRUE
          /\ file_content \in Inputs
    /\ Locals

\* clean_vtt_subtitle called directly on an input, no CLI around it
InitFn ==
    /\ pc = "clean_22"
    /\ argc = 1 /\ file_exists = FALSE /\ file_readable = FALSE
    /\ file_content = <<>>
    /\ vtt_content \in Inputs
    /\ lines = <<>>
    /\ idx = 0
    /\ line = <<>>
    /\ clean_line = <<>>
    /\ prev_line = <<>>
    /\ text_lines = <<>>
    /\ seen_lines = {}
    /\ result = <<>>
    /\ cleaned_text = <<>>
    /\ stdout = <<>>
    /\ stderr = <<>>
    /\ exit_code = -1
    /\ calls = 1
    /\ first_out = <<>>

-----------------------------------------------------------------------------
(* clean_vtt_subtitle, lines 12-53.                                        *)

env == <<argc, file_exists, file_readable, file_content>>
io == <<cleaned_text, stdout, stderr, exit_code>>

\* lines 22-24: lines = vtt_content.split('\n'); text_lines = []; seen_lines = set()
CleanSplit ==
    /\ pc = "clean_22"
    /\ lines' = split_nl(vtt_content)
    /\ text_lines' = <<>>
    /\ seen_lines' = {}
    /\ idx' = 1
    /\ pc' = "clean_26"
    /\ UNCHANGED <<env, io, vtt_content, line, clean_line, prev_line, result,
                   calls, first_out>>

\* line 26: for line in lines, the next element
ForNext ==
    /\ pc = "clean_26"
    /\ idx <= Len(lines)
    /\ line' = lines[idx]
    /\ idx' = idx + 1
    /\ pc' = "clean_28"
    /\ UNCHANGED <<env, io, vtt_content, lines, clean_line, prev_line,
                   text_lines, seen_lines, result, calls, first_out>>

continue ==
    /\ pc' = "clean_26"
    /\ UNCHANGED <<env, io, vtt_content, lines, idx, line, clean_line,
                   prev_line, text_lines, seen_lines, result, calls, first_out>>

\* lines 28-29: a header line is skipped
SkipHeader ==
    /\ pc = "clean_28"
    /\ IsHeader(line)
    /\ continue

\* lines 32-33: a timing line is skipped
SkipTiming ==
    /\ pc = "clean_28"
    /\ ~IsHeader(line)
    /\ IsTiming(line)
    /\ continue

\* lines 36-37: a blank line is skipped
SkipBlank ==
    /\ pc = "clean_28"
    /\ ~IsHeader(line)
    /\ ~IsTiming(line)
    /\ IsBlank(line)
    /\ continue

\* line 40: a kept line has its tags removed
StripTags ==
    /\ pc = "clean_28"
    /\ ~IsHeader(line)
    /\ ~IsTiming(line)
    /\ ~IsBlank(line)
    /\ prev_line' = line
    /\ clean_line' = strip_tags(line)
    /\ pc' = "clean_43"
    /\ UNCHANGED <<env, io, vtt_content, lines, idx, line, text_lines,
                   seen_lines, result, calls, first_out>>

\* line 43: the second substitution
StripWordTags ==
    /\ pc = "clean_43"
    /\ prev_line' = clean_line
    /\ clean_line' = strip_word_tags(clean_line)
    /\ pc' = "clean_46"
    /\ UNCHANGED <<env, io, vtt_content, lines, idx, line, text_lines,
                   seen_lines, result, calls, first_out>>

\* line 46: whitespace runs become one space, the ends are trimmed
CollapseSpaces ==
    /\ pc = "clean_46"
    /\ prev_line' = clean_line
    /\ clean_line' = collapse_spaces(clean_line)
    /\ pc' = "clean_49"
    /\ UNCHANGED <<env, io, vtt_content, lines, idx, line, text_lines,
                   seen_lines, result, calls, first_out>>

\* lines 49-51 without the membership test
DedupNoSeen ==
    /\ pc = "clean_49"
    /\ IF clean_line # <<>>
       THEN /\ text_lines' = Append(text_lines, clean_line)
            /\ seen_lines' = seen_lines \cup {clean_line}
       ELSE UNCHANGED <<text_lines, seen_lines>>
    /\ pc' = "clean_26"
    /\ UNCHANGED <<env, io, vtt_content, lines, idx, line, clean_line,
                   prev_line, result, calls, first_out>>

\* lines 49-51 without the emptiness test
DedupNoEmpty ==
    /\ pc = "clean_49"
    /\ IF clean_line \notin seen_lines
       THEN /\ text_lines' = Append(text_lines, clean_line)
            /\ seen_lines' = seen_lines \cup {clean_line}
       ELSE UNCHANGED <<text_lines, seen_lines>>
    /\ pc' = "clean_26"
    /\ UNCHANGED <<env, io, vtt_content, lines, idx, line, clean_line,
                   prev_line, result, calls, first_out>>

\* lines 49-51 with text_lines.insert(0, clean_line)
DedupPrepend ==
    /\ pc = "clean_49"
    /\ IF clean_line # <<>> /\ clean_line \notin seen_lines
       THEN /\ text_lines' = <<clean_line>> \o text_lines
            /\ seen_lines' = seen_lines \cup {clean_line}
       ELSE UNCHANGED <<text_lines, seen_lines>>
    /\ pc' = "clean_26"
    /\ UNCHANGED <<env, io, vtt_content, lines, idx, line, clean_line,
                   prev_line, result, calls, first_out>>

\* lines 49-51: a non-empty line not seen before is appended and recorded
Dedup ==
    /\ pc = "clean_49"
    /\ IF clean_line # <<>> /\ clean_line \notin seen_lines
       THEN /\ text_lines' = Append(text_lines, clean_line)
            /\ seen_lines' = seen_lines \cup {clean_line}
       ELSE UNCHANGED <<text_lines, seen_lines>>
    /\ pc' = "clean_26"
    /\ UNCHANGED <<env, io, vtt_content, lines, idx, line, clean_line,
                   prev_line, result, calls, first_out>>

\* line 53: after the last line, return '\n'.join(text_lines)
Return ==
    /\ pc = "clean_26"
    /\ idx > Len(lines)
    /\ result' = join(<<NL>>, text_lines)
    /\ pc' = "returned"
    /\ UNCHANGED <<env, io, vtt_content, lines, idx, line, clean_line,
                   prev_line, text_lines, seen_lines, calls, first_out>>

\* the result of the first call is passed to a second call as its input
Feedback ==
    /\ pc = "returned"
    /\ calls = 1
    /\ first_out' = result
    /\ vtt_content' = result
    /\ calls' = 2
    /\ pc' = "clean_22"
    /\ UNCHANGED <<env, io, lines, idx, line, clean_line, prev_line,
                   text_lines, seen_lines, result>>

-----------------------------------------------------------------------------
(* main, lines 56-88.                                                      *)

clean_locals == <<lines, idx, line, clean_line, prev_line, text_lines,
                  seen_lines, result, first_out>>

\* lines 58-61: no path argument
MainUsage ==
    /\ pc = "main_58"
    /\ argc < 2
    /\ stderr' = stderr \o <<Msg("usage"), Msg("example")>>
    /\ exit_code' = 1
    /\ pc' = "exited"
    /\ UNCHANGED <<env, clean_locals, vtt_content, cleaned_text, stdout, calls>>

\* line 63: subtitle_file = Path(sys.argv[1])
MainPath ==
    /\ pc = "main_58"
    /\ argc >= 2
    /\ pc' = "main_65"
    /\ UNCHANGED <<env, io, clean_locals, vtt_content, calls>>

\* lines 65-67 with the message printed without file=sys.stderr
MainNotFoundToStdout ==
    /\ pc = "main_65"
    /\ ~file_exists
    /\ stdout' = stdout \o <<"e", "r", "r", NL>>
    /\ exit_code' = 1
    /\ pc' = "exited"
    /\ UNCHANGED <<env, clean_locals, vtt_content, cleaned_text, stderr, calls>>

\* lines 65-67: the path does not exist
MainNotFound ==
    /\ pc = "main_65"
    /\ ~file_exists
    /\ stderr' = Append(stderr, Msg("not found"))
    /\ exit_code' = 1
    /\ pc' = "exited"
    /\ UNCHANGED <<env, clean_locals, vtt_content, cleaned_text, stdout, calls>>

\* lines 70-75: open or read raises
MainReadError ==
    /\ pc = "main_65"
    /\ file_exists
    /\ ~file_readable
    /\ stderr' = Append(stderr, Msg("cannot read"))
    /\ exit_code' = 1
    /\ pc' = "exited"
    /\ UNCHANGED <<env, clean_locals, vtt_content, cleaned_text, stdout, calls>>

\* lines 70-72 and the call of line 78: the content is read and passed on
MainRead ==
    /\ pc = "main_65"
    /\ file_exists
    /\ file_readable
    /\ vtt_content' = file_content
    /\ calls' = calls + 1
    /\ pc' = "clean_22"
    /\ UNCHANGED <<env, io, clean_locals>>

\* lines 78 and 81: cleaned_text = <the result>; print(cleaned_text)
MainPrint ==
    /\ pc = "returned"
    /\ cleaned_text' = result
    /\ stdout' = stdout \o result \o <<NL>>
    /\ pc' = "main_84"
    /\ UNCHANGED <<env, clean_locals, vtt_content, stderr, exit_code, calls>>

\* lines 84-88 with the lines counted as the number of newlines
MainStatsCountNewlines ==
    /\ pc = "main_84"
    /\ LET line_count == Cardinality({i \in 1..Len(cleaned_text) : cleaned_text[i] = NL})
           char_count == Len(cleaned_text)
       IN stderr' = stderr \o << Msg("stats"), Stat("lines", line_count),
                                 Stat("chars", char_count) >>
    /\ exit_code' = 0
    /\ pc' = "done"
    /\ UNCHANGED <<env, clean_locals, vtt_content, cleaned_text, stdout, calls>>

\* lines 84-88: the statistics, then the process ends with status 0
MainStats ==
    /\ pc = "main_84"
    /\ LET line_count == Len(split_nl(cleaned_text))
           char_count == Len(cleaned_text)
       IN stderr' = stderr \o << Msg("stats"), Stat("lines", line_count),
                                 Stat("chars", char_count) >>
    /\ exit_code' = 0
    /\ pc' = "done"
    /\ UNCHANGED <<env, clean_locals, vtt_content, cleaned_text, stdout, calls>>

-----------------------------------------------------------------------------
(* Specifications.                                                         *)

Clean ==
    \/ CleanSplit
    \/ ForNext
    \/ SkipHeader
    \/ SkipTiming
    \/ SkipBlank
    \/ StripTags
    \/ StripWordTags
    \/ CollapseSpaces
    \/ Dedup
    \/ Return

Next ==
    \/ MainUsage
    \/ MainPath
    \/ MainNotFound
    \/ MainReadError
    \/ MainRead
    \/ Clean
    \/ MainPrint
    \/ MainStats

\* the command line program
Spec == Init /\ [][Next]_vars

NextFn == Clean \/ Feedback

\* the cleaning routine applied to an input and then to its own output
SpecFn == InitFn /\ [][NextFn]_vars

-----------------------------------------------------------------------------
(* Vocabulary of the properties.                                           *)

\* the lines of a returned text: '' has none
OutputLines(r) == IF r = <<>> THEN <<>> ELSE split_nl(r)

Range(q) == {q[i] : i \in 1..Len(q)}

NoRepeats(q) == \A i, j \in 1..Len(q) : q[i] = q[j] => i = j

\* l begins with one of the three header prefixes
HeaderPrefixed(l) ==
    \/ Len(l) >= 6 /\ SubSeq(l, 1, 6) = <<"W", "E", "B", "V", "T", "T">>
    \/ Len(l) >= 5 /\ SubSeq(l, 1, 5) = <<"K", "i", "n", "d", ":">>
    \/ Len(l) >= 9
       /\ SubSeq(l, 1, 9) = <<"L", "a", "n", "g", "u", "a", "g", "e", ":">>

\* l holds the substring '-->'
HasArrow(l) ==
    \E i \in 1..(Len(l) - 2) : l[i] = "-" /\ l[i + 1] = "-" /\ l[i + 2] = ">"

\* l holds '<', one or more characters other than '>', then '>'
HasTag(l) ==
    \E i, j \in 1..Len(l) :
        /\ j >= i + 2
        /\ l[i] = "<"
        /\ l[j] = ">"
        /\ \A k \in (i + 1)..(j - 1) : l[k] # ">"

\* l has no character that is not whitespace
OnlySpace(l) == \A i \in 1..Len(l) : l[i] \in Whitespace

\* the input line is one the loop skips
Skipped(l) == IsHeader(l) \/ IsTiming(l) \/ IsBlank(l)

\* cleaned form of a line: tags stripped (both passes), whitespace collapsed
Cleaned(l) == collapse_spaces(sub_word_tag(sub_any_tag(l)))

\* cleaned form of a line with the single pass '<[^>]+>'
CleanedOnePass(l) == collapse_spaces(sub_any_tag(l))

\* q without the elements that repeat an earlier one
RECURSIVE RemoveRepeats(_)
RemoveRepeats(q) ==
    IF q = <<>> THEN <<>>
    ELSE LET r == RemoveRepeats(SubSeq(q, 1, Len(q) - 1))
             x == q[Len(q)]
         IN IF x \in Range(r) THEN r ELSE Append(r, x)

NotEmpty(x) == x # <<>>
NotSkipped(l) == ~Skipped(l)

\* the cleaned forms of the non-skipped lines of ls, in order, without the
\* empty ones and without repetitions
Expected(ls, F(_)) ==
    LET kept == SelectSeq(ls, NotSkipped)
        forms == [i \in 1..Len(kept) |-> F(kept[i])]
    IN RemoveRepeats(SelectSeq(forms, NotEmpty))

\* position in lines of the first non-skipped line whose cleaned form is a,
\* 0 when there is none
FirstIndex(a) ==
    LET S == {i \in 1..Len(lines) : ~Skipped(lines[i]) /\ Cleaned(lines[i]) = a}
    IN IF S = {} THEN 0 ELSE CHOOSE i \in S : \A j \in S : i <= j

RECURSIVE SumLen(_)
SumLen(q) == IF q = <<>> THEN 0 ELSE Len(Head(q)) + SumLen(Tail(q))

\* the loop is between two iterations, or over
AtLoopHead == pc \in {"clean_26", "returned"}

NoArrowLine(l) == ~HasArrow(l)
NoHeaderLine(l) == ~HeaderPrefixed(l)
StableLine(l) == ~HeaderPrefixed(l) /\ ~HasArrow(l)
InBody == pc \in {"clean_43", "clean_46", "clean_49"}

-----------------------------------------------------------------------------
(* C1.  Idempotence.                                                       *)

\* C1 as stated: feeding the cleaned output back in as new input returns it
\* unchanged.
C1_Idempotent ==
    (pc = "returned" /\ calls = 2) => result = first_out

\* C1 amended: cleaning the cleaned output again returns it with the lines
\* that begin with 'WEBVTT', 'Kind:' or 'Language:' or contain '-->' removed
\* and nothing else changed; it is returned unchanged when it has no such
\* line.
C1_IdempotentButForSkippedLines ==
    (pc = "returned" /\ calls = 2) =>
        /\ result = join(<<NL>>, SelectSeq(OutputLines(first_out), StableLine))
        /\ (\A o \in Range(OutputLines(first_out)) : StableLine(o))
               => result = first_out

\* a two-line output has been cleaned again and came back unchanged
C1_Witness ==
    /\ pc = "returned"
    /\ calls = 2
    /\ Len(OutputLines(first_out)) >= 2
    /\ result = first_out

-----------------------------------------------------------------------------
(* C2.  Timing lines.                                                      *)

\* C2 as stated: no line of the output contains the substring '-->'.
C2_NoArrowInOutput ==
    pc = "returned" => \A o \in Range(OutputLines(result)) : ~HasArrow(o)

\* C2 amended: no input line that contains '-->' contributes to the output,
\* also when it carries visible text or markup: such a line never reaches
\* the tag stripping, every output line is the cleaned form of an input line
\* without '-->', and the output is what it would be with those input lines
\* deleted.  (An output line can still contain '-->' when the arrow only
\* comes together by tag removal, as in '-<c>->'.)
C2_ArrowLinesContributeNothing ==
    /\ InBody => ~HasArrow(line)
    /\ pc = "returned" =>
        /\ \A o \in Range(OutputLines(result)) :
               \E i \in 1..Len(lines) : ~HasArrow(lines[i]) /\ Cleaned(lines[i]) = o
        /\ text_lines = Expected(SelectSeq(lines, NoArrowLine), Cleaned)

\* an input with a '-->' line that also carries visible text has been
\* cleaned to a non-empty output
C2_Witness ==
    /\ pc = "returned"
    /\ result # <<>>
    /\ \E i \in 1..Len(lines) : HasArrow(lines[i]) /\ Cleaned(lines[i]) # <<>>

-----------------------------------------------------------------------------
(* C3.  Header lines.                                                      *)

\* C3 as stated: no output line begins with 'WEBVTT', 'Kind:' or 'Language:'.
C3_NoHeaderInOutput ==
    pc = "returned" => \A o \in Range(OutputLines(result)) : ~HeaderPrefixed(o)

\* C3 amended: no input line that begins with 'WEBVTT', 'Kind:' or
\* 'Language:' contributes to the output: such a line never reaches the tag
\* stripping, every output line is the cleaned form of an input line that
\* does not begin with one of these prefixes, and the output is what it would
\* be with those input lines deleted.  (An output line can still begin with
\* such a prefix once tags or leading whitespace in front of it are removed,
\* as for '<c>WEBVTT'.)
C3_HeaderLinesContributeNothing ==
    /\ InBody => ~HeaderPrefixed(line)
    /\ pc = "returned" =>
        /\ \A o \in Range(OutputLines(result)) :
               \E i \in 1..Len(lines) :
                   ~HeaderPrefixed(lines[i]) /\ Cleaned(lines[i]) = o
        /\ text_lines = Expected(SelectSeq(lines, NoHeaderLine), Cleaned)

\* an input with a header line and a text line has been cleaned to a
\* non-empty output
C3_Witness ==
    /\ pc = "returned"
    /\ result # <<>>
    /\ \E i \in 1..Len(lines) : HeaderPrefixed(lines[i])

-----------------------------------------------------------------------------
(* C4.  De-duplication.                                                    *)

\* C4: text_lines never holds a repeated element, seen_lines is exactly the
\* set of elements of text_lines at every iteration, and no two lines of the
\* returned output are identical.
C4_NoDuplicates ==
    /\ NoRepeats(text_lines)
    /\ seen_lines = Range(text_lines)
    /\ pc = "returned" =>
        /\ NoRepeats(OutputLines(result))
        /\ Len(OutputLines(result)) = Cardinality(seen_lines)

\* two different input lines with the same non-empty cleaned form were
\* processed and the output has two or more lines
C4_Witness ==
    /\ pc = "returned"
    /\ Len(text_lines) >= 2
    /\ \E i, j \in 1..Len(lines) :
           /\ i < j
           /\ lines[i] # lines[j]
           /\ ~Skipped(lines[i])
           /\ ~Skipped(lines[j])
           /\ Cleaned(lines[i]) = Cleaned(lines[j])
           /\ Cleaned(lines[i]) # <<>>

-----------------------------------------------------------------------------
(* C5.  First-occurrence order.                                            *)

\* C5: output lines stand in the order of the first non-skipped input lines
\* that clean to them; between iterations text_lines is the sequence of the
\* cleaned forms of the non-skipped lines taken so far, in input order,
\* without the empty ones and without repetitions, and the returned text is
\* that sequence for all lines joined by newlines.
C5_FirstOccurrenceOrder ==
    /\ \A p, q \in 1..Len(text_lines) :
           p < q => /\ FirstIndex(text_lines[p]) > 0
                    /\ FirstIndex(text_lines[p]) < FirstIndex(text_lines[q])
    /\ AtLoopHead => text_lines = Expected(SubSeq(lines, 1, idx - 1), Cleaned)
    /\ pc = "returned" => result = join(<<NL>>, Expected(lines, Cleaned))

\* the first output line occurs again in the input after the line that
\* introduced the second output line
C5_Witness ==
    /\ pc = "returned"
    /\ Len(text_lines) >= 2
    /\ \E i \in 1..Len(lines) :
           /\ i > FirstIndex(text_lines[2])
           /\ ~Skipped(lines[i])
           /\ Cleaned(lines[i]) = text_lines[1]

-----------------------------------------------------------------------------
(* C6.  No blank lines.                                                    *)

\* C6: every line appended to text_lines is non-empty and not
\* whitespace-only, and the returned text has no leading newline, no
\* trailing newline and no two consecutive newlines.
C6_NoBlankLines ==
    /\ \A k \in 1..Len(text_lines) :
           text_lines[k] # <<>> /\ ~OnlySpace(text_lines[k])
    /\ (pc = "returned" /\ result # <<>>) =>
        /\ result[1] # NL
        /\ result[Len(result)] # NL
        /\ \A i \in 1..(Len(result) - 1) : ~(result[i] = NL /\ result[i + 1] = NL)

\* the input had a blank line and a line that is empty once its tags are
\* removed, and the output is not empty
C6_Witness ==
    /\ pc = "returned"
    /\ result # <<>>
    /\ \E i \in 1..Len(lines) : OnlySpace(lines[i])
    /\ \E j \in 1..Len(lines) : ~Skipped(lines[j]) /\ Cleaned(lines[j]) = <<>>

-----------------------------------------------------------------------------
(* C7.  Failures of the command line program.                              *)

Failure == argc < 2 \/ ~file_exists \/ ~file_readable

IsStat(m) == m.value # -1

\* C7: with no path argument, a path that does not exist or a file whose
\* reading raises, main stops with exit code 1 after writing a message to
\* stderr; nothing is ever written to stdout, the cleaning routine is never
\* called and no statistics are written.
C7_FailureIsTerminalAndSilent ==
    /\ Failure =>
        /\ stdout = <<>>
        /\ calls = 0
        /\ pc \in {"main_58", "main_65", "exited"}
        /\ \A k \in 1..Len(stderr) : ~IsStat(stderr[k])
        /\ pc = "exited" => exit_code = 1 /\ stderr # <<>>
        /\ pc # "exited" => exit_code = -1 /\ stderr = <<>>
    /\ exit_code = 1 => Failure /\ pc = "exited"
    /\ pc = "exited" => ~ENABLED Next

\* the file exists, reading it raised and the process has exited
C7_Witness ==
    /\ pc = "exited"
    /\ argc = 2
    /\ file_exists
    /\ ~file_readable
    /\ exit_code = 1

-----------------------------------------------------------------------------
(* C8.  Statistics.                                                        *)

\* C8: after a successful run the statistics report as line count the
\* number of emitted lines, or 1 when the cleaned text is empty, and as
\* character count the length of the cleaned text (0 when it is empty):
\* the characters of the emitted lines plus the newlines between them, which
\* is what stdout received without the newline print adds.
C8_Statistics ==
    pc = "done" =>
        /\ Len(stderr) = 3
        /\ stderr[2] = Stat("lines", IF Len(text_lines) >= 1
                                     THEN Len(text_lines) ELSE 1)
        /\ stderr[3] = Stat("chars", IF Len(text_lines) >= 1
                                     THEN SumLen(text_lines) + Len(text_lines) - 1
                                     ELSE 0)
        /\ stderr[3].value = Len(stdout) - 1
        /\ exit_code = 0

\* a file with content but nothing to emit has been processed
C8_Witness ==
    /\ pc = "done"
    /\ file_content # <<>>
    /\ text_lines = <<>>
    /\ stderr[2].value = 1
    /\ stderr[3].value = 0

-----------------------------------------------------------------------------
(* C9.  The second substitution.                                           *)

\* C9: the second substitution '</?\w+>' never changes a line, and the
\* returned text is the one the routine with the single pass '<[^>]+>'
\* returns.
C9_SecondPassChangesNothing ==
    /\ pc = "clean_46" => clean_line = prev_line
    /\ pc = "returned" =>
        /\ text_lines = Expected(lines, CleanedOnePass)
        /\ result = join(<<NL>>, Expected(lines, CleanedOnePass))

\* the second substitution has run on a line that held a tag of its pattern
C9_Witness ==
    /\ pc = "clean_46"
    /\ \E i \in 1..Len(line) : word_tag_match(SubSeq(line, i, Len(line))) > 0
    /\ \E i \in 1..Len(line) : line[i] = "/"

-----------------------------------------------------------------------------
(* C10.  Tags.                                                             *)

\* C10: no emitted line and no line of the returned text contains '<', one
\* or more characters other than '>', then '>'.
C10_NoTagInOutput ==
    /\ \A k \in 1..Len(text_lines) : ~HasTag(text_lines[k])
    /\ pc = "returned" => \A o \in Range(OutputLines(result)) : ~HasTag(o)

\* a line with a tag has been emitted, and an angle bracket is left in it
C10_Witness ==
    /\ pc = "returned"
    /\ \E i \in 1..Len(lines) :
           /\ ~Skipped(lines[i])
           /\ HasTag(lines[i])
           /\ Cleaned(lines[i]) \in Range(text_lines)
           /\ \E k \in 1..Len(Cleaned(lines[i])) : Cleaned(lines[i])[k] \in {"<", ">"}

====
